---------------------------- MODULE Spec2Model ----------------------------
(***************************************************************************)
(* Support ticket resolution agent: the workflow of src/src/core/agent.py  *)
(* (classify -> retrieve -> draft -> review -> retry | finalize |          *)
(* escalate), its nodes (src/src/core/nodes.py), the run state             *)
(* (src/src/models/models.py) and the knowledge base scorer                *)
(* (src/src/services/knowledge_base.py).                                   *)
(*                                                                         *)
(* Representation.  Python strings are TLA+ strings.  Optional[T] is a     *)
(* sequence of length 0 (None) or 1.  A float in [0,1] that comes from a   *)
(* collaborator is an integer number of hundredths (0.3 is 30); a          *)
(* relevance score is an exact fraction <<num, den>>.  A collaborator's    *)
(* JSON reply is a record whose DOMAIN is the set of keys the reply        *)
(* carries.  DraftResponse.generated_at (a wall clock reading that no      *)
(* code reads back) is not represented.                                    *)
(***************************************************************************)
EXTENDS Integers, Sequences, FiniteSets, TLC

(***************************************************************************)
(* Strings                                                                 *)
(***************************************************************************)

\* str.lower() on one character (ASCII letters).
LowerChar(c) ==
    CASE c = "A" -> "a" [] c = "B" -> "b" [] c = "C" -> "c" [] c = "D" -> "d"
      [] c = "E" -> "e" [] c = "F" -> "f" [] c = "G" -> "g" [] c = "H" -> "h"
      [] c = "I" -> "i" [] c = "J" -> "j" [] c = "K" -> "k" [] c = "L" -> "l"
      [] c = "M" -> "m" [] c = "N" -> "n" [] c = "O" -> "o" [] c = "P" -> "p"
      [] c = "Q" -> "q" [] c = "R" -> "r" [] c = "S" -> "s" [] c = "T" -> "t"
      [] c = "U" -> "u" [] c = "V" -> "v" [] c = "W" -> "w" [] c = "X" -> "x"
      [] c = "Y" -> "y" [] c = "Z" -> "z" [] OTHER -> c

RECURSIVE Lower(_)
\* str.lower(), character by character (halving keeps the recursion shallow)
Lower(s) ==
    IF Len(s) = 0 THEN ""
    ELSE IF Len(s) = 1 THEN LowerChar(s)
    ELSE LET h == Len(s) \div 2
         IN  Lower(SubSeq(s, 1, h)) \o Lower(SubSeq(s, h + 1, Len(s)))

\* The characters str.split() and str.strip() treat as whitespace.
IsSpace(c) == c \in {" ", "\t", "\n", "\r"}

RECURSIVE LStrip(_)
LStrip(s) == IF s # "" /\ IsSpace(Head(s)) THEN LStrip(Tail(s)) ELSE s

RECURSIVE RStrip(_)
RStrip(s) ==
    IF s # "" /\ IsSpace(SubSeq(s, Len(s), Len(s)))
    THEN RStrip(SubSeq(s, 1, Len(s) - 1))
    ELSE s

\* str.strip()
Strip(s) == LStrip(RStrip(s))

\* set(s.split()): the maximal runs of non-whitespace characters of s, as a
\* set (the scorer only ever takes the set of the words).
SplitWords(s) ==
    LET ch(i) == SubSeq(s, i, i)
        starts == { i \in 1..Len(s) :
                      ~IsSpace(ch(i)) /\ (i = 1 \/ IsSpace(ch(i - 1))) }
        ends == { j \in 1..Len(s) :
                    ~IsSpace(ch(j)) /\ (j = Len(s) \/ IsSpace(ch(j + 1))) }
        endOf(i) == CHOOSE j \in ends :
                      j >= i /\ \A k \in ends : k >= i => j <= k
    IN  { SubSeq(s, i, endOf(i)) : i \in starts }

\* Python's `w in s` for strings.
Contains(w, s) ==
    \E i \in 1..(Len(s) - Len(w) + 1) : SubSeq(s, i, i + Len(w) - 1) = w

(***************************************************************************)
(* Optional values                                                         *)
(***************************************************************************)
None == <<>>
Some(v) == <<v>>
IsSet(o) == o # <<>>
Val(o) == o[1]

(***************************************************************************)
(* models.py                                                               *)
(***************************************************************************)
\* TicketCategory
TicketCategory == {"billing", "technical", "security", "general"}

\* AgentState.max_attempts default
MaxAttempts == 2

\* A field validated with ge=0.0 only.
InUnitRange_no_upper_bound(x) == 0 <= x

\* Field(ge=0.0, le=1.0) of ClassificationResult.confidence, ReviewResult.score
InUnitRange(x) == 0 <= x /\ x <= 100

(***************************************************************************)
(* knowledge_base.py                                                       *)
(***************************************************************************)
\* MockKnowledgeBase.knowledge, each category's entries in catalogue order.
Knowledge ==
  [c \in TicketCategory |->
    CASE c = "billing" -> <<
      [content |-> "For billing inquiries, customers can view their invoices in the account dashboard under 'Billing & Payments'. Payment methods can be updated in the same section.",
       source |-> "billing_faq.md",
       keywords |-> <<"invoice", "payment", "billing", "account", "dashboard">>],
      [content |-> "Refunds are processed within 5-7 business days. Customers must request refunds within 30 days of purchase. Contact billing@company.com for refund requests.",
       source |-> "refund_policy.md",
       keywords |-> <<"refund", "return", "money back", "cancel">>],
      [content |-> "Subscription changes take effect at the next billing cycle. Upgrades are prorated, downgrades take effect at cycle end to avoid partial charges.",
       source |-> "subscription_management.md",
       keywords |-> <<"subscription", "upgrade", "downgrade", "plan", "billing cycle">>],
      [content |-> "Failed payments will retry automatically after 3 days. Update payment method to avoid service interruption. Account may be suspended after 3 failed attempts.",
       source |-> "payment_failures.md",
       keywords |-> <<"failed payment", "declined", "card", "suspended", "retry">>] >>
    [] c = "technical" -> <<
      [content |-> "For login issues, first try clearing browser cache and cookies. If problem persists, reset password using 'Forgot Password' link on login page.",
       source |-> "login_troubleshooting.md",
       keywords |-> <<"login", "password", "authentication", "cache", "cookies">>],
      [content |-> "API rate limits are 1000 requests per hour for standard accounts, 5000 for premium. Use exponential backoff for retry logic when hitting rate limits.",
       source |-> "api_documentation.md",
       keywords |-> <<"api", "rate limit", "requests", "429", "quota">>],
      [content |-> "Mobile app crashes can often be resolved by updating to the latest version. Force close the app and restart. Clear app cache if issues persist.",
       source |-> "mobile_troubleshooting.md",
       keywords |-> <<"mobile", "app", "crash", "update", "restart">>],
      [content |-> "Database connection timeouts indicate high server load. Wait 5-10 minutes and retry. Check status page for ongoing incidents at status.company.com",
       source |-> "server_status.md",
       keywords |-> <<"timeout", "database", "connection", "server", "status">>],
      [content |-> "Email notifications may be delayed up to 30 minutes during peak hours. Check spam folder if emails are missing. Verify email address in account settings.",
       source |-> "notification_issues.md",
       keywords |-> <<"email", "notification", "spam", "delayed", "missing">>] >>
    [] c = "security" -> <<
      [content |-> "Enable two-factor authentication (2FA) in account security settings. Use authenticator app for best security. SMS backup is available but less secure.",
       source |-> "2fa_setup.md",
       keywords |-> <<"2fa", "two-factor", "authentication", "security", "authenticator">>],
      [content |-> "Suspicious account activity should be reported immediately. Change password and review recent login history in security settings. Contact security@company.com for urgent issues.",
       source |-> "security_incidents.md",
       keywords |-> <<"suspicious", "activity", "breach", "unauthorized", "security">>],
      [content |-> "Password requirements: minimum 12 characters, include uppercase, lowercase, numbers, and symbols. Avoid common passwords and personal information.",
       source |-> "password_policy.md",
       keywords |-> <<"password", "requirements", "strong", "secure", "policy">>],
      [content |-> "Data export requests are processed within 48 hours. Submit request through account settings > Privacy > Export Data. Files are available for 7 days.",
       source |-> "data_privacy.md",
       keywords |-> <<"data export", "gdpr", "privacy", "download", "personal data">>] >>
    [] OTHER -> <<
      [content |-> "Account deletion is permanent and cannot be undone. Export your data first. Contact support to initiate deletion process. Allow 30 days for complete removal.",
       source |-> "account_deletion.md",
       keywords |-> <<"delete account", "close", "remove", "permanent", "export">>],
      [content |-> "Feature requests can be submitted through the feedback form in app settings. Popular requests are reviewed monthly by the product team.",
       source |-> "feature_requests.md",
       keywords |-> <<"feature", "request", "suggestion", "feedback", "product">>],
      [content |-> "Business hours support: Monday-Friday 9AM-6PM EST. Premium customers have 24/7 phone support. Response time: 4 hours for urgent, 24 hours for normal.",
       source |-> "support_hours.md",
       keywords |-> <<"support", "hours", "contact", "response time", "urgent">>],
      [content |-> "Account information updates (name, email, phone) can be made in profile settings. Email changes require verification. Some changes may require identity verification.",
       source |-> "profile_management.md",
       keywords |-> <<"profile", "update", "personal", "information", "verification">>] >>]

\* keyword_matches: the keywords that contain some query word.
KeywordMatches(entry, query_words) ==
    Cardinality({ i \in DOMAIN entry.keywords :
        \E word \in query_words : Contains(word, Lower(entry.keywords[i])) })

\* content_matches: the query words the content contains.
ContentMatches(entry, query_words) ==
    LET content == Lower(entry.content)
    IN  Cardinality({ word \in query_words : Contains(word, content) })

\* The relevance score without the cap at 1.0.
RelevanceScore_uncapped(entry, query_words) ==
    <<KeywordMatches(entry, query_words) * 2
        + ContentMatches(entry, query_words),
      Len(entry.keywords) + 1>>

\* relevance_score = min(total_score, 1.0), as the fraction <<num, den>>.
RelevanceScore(entry, query_words) ==
    LET num == KeywordMatches(entry, query_words) * 2
                 + ContentMatches(entry, query_words)
        den == Len(entry.keywords) + 1
    IN  IF num >= den THEN <<den, den>> ELSE <<num, den>>

\* a < b for fractions
FracLess(a, b) == a[1] * b[2] < b[1] * a[2]

\* The loop of retrieve without its test relevance_score > 0.
ScoredSnippets_keep_zero(entries, query_words) ==
    [i \in DOMAIN entries |->
        [content |-> entries[i].content,
         source |-> entries[i].source,
         relevance_score |-> RelevanceScore(entries[i], query_words)]]

\* the loop of retrieve: the entries with relevance_score > 0, catalogue order
ScoredSnippets(entries, query_words) ==
    LET snippet(i) == [content |-> entries[i].content,
                       source |-> entries[i].source,
                       relevance_score |-> RelevanceScore(entries[i], query_words)]
    IN  SelectSeq([i \in DOMAIN entries |-> snippet(i)],
                  LAMBDA sn : sn.relevance_score[1] > 0)

RECURSIVE InsertDesc_before_ties(_, _)
\* An insertion that places sn ahead of the elements whose score equals its
\* own: a sort that is descending and not stable.
InsertDesc_before_ties(seq, sn) ==
    IF seq = <<>> THEN <<sn>>
    ELSE IF ~FracLess(sn.relevance_score, Head(seq).relevance_score)
         THEN <<sn>> \o seq
         ELSE <<Head(seq)>> \o InsertDesc_before_ties(Tail(seq), sn)

RECURSIVE InsertDesc(_, _)
\* sn placed after every element of the sorted seq whose score is >= its own
InsertDesc(seq, sn) ==
    IF seq = <<>> THEN <<sn>>
    ELSE IF FracLess(Head(seq).relevance_score, sn.relevance_score)
         THEN <<sn>> \o seq
         ELSE <<Head(seq)>> \o InsertDesc(Tail(seq), sn)

RECURSIVE SortDesc(_)
\* list.sort(key=score, reverse=True): stable, descending
SortDesc(seq) ==
    IF seq = <<>> THEN <<>>
    ELSE InsertDesc(SortDesc(SubSeq(seq, 1, Len(seq) - 1)), seq[Len(seq)])

\* seq[:n]
Take(seq, n) == SubSeq(seq, 1, IF Len(seq) < n THEN Len(seq) ELSE n)

\* MockKnowledgeBase.retrieve
KbRetrieve(query, category, max_results) ==
    IF category \notin DOMAIN Knowledge THEN <<>>
    ELSE LET query_words == SplitWords(Lower(query))
         IN  Take(SortDesc(ScoredSnippets(Knowledge[category], query_words)),
                  max_results)

(***************************************************************************)
(* Inputs: the tickets submitted and the collaborators' outcomes           *)
(***************************************************************************)
\* SupportTicket values submitted to process_ticket
Tickets ==
    { [subject |-> "Can't log in",
       description |-> "Password reset link not working"],
      [subject |-> "Refund request",
       description |-> "I want my money back"] }

\* A collaborator call either raises or returns a value.
Raise == [ok |-> FALSE]
Return(v) == [ok |-> TRUE, value |-> v]

\* dict.get(key, default)
Get(d, key, default) == IF key \in DOMAIN d THEN d[key] ELSE default

\* Outcomes of llm.invoke_with_json_response in classify_ticket: the call
\* raises, or returns the parsed JSON object ({"response": raw} when the
\* model's text holds no JSON object).
ClassifierOutcomes ==
    { Raise,
      Return([category |-> "technical", confidence |-> 90]),
      Return([category |-> "Billing", confidence |-> 80]),
      Return([category |-> "urgent", confidence |-> 95]),
      Return([category |-> "refunds", confidence |-> 150]),
      Return([category |-> "security", confidence |-> 150]),
      Return([category |-> "billing", confidence |-> -20]),
      Return([response |-> "This looks like a billing question."]) }

\* Outcomes of llm.invoke in generate_draft: the call raises or returns text
\* (text with surrounding whitespace, and text of whitespace alone).
GeneratorOutcomes ==
    { Raise,
      Return("  Please clear your browser cache and reset your password.\n"),
      Return(" \n") }

\* The criteria_scores object of an evaluator reply, all four at x.
Criteria(x) ==
    [k \in {"correctness", "usefulness", "tone", "safety"} |-> x]

\* Outcomes of llm.invoke_with_json_response in review_draft.
EvaluatorOutcomes ==
    { Raise,
      Return([approved |-> TRUE, overall_score |-> 80,
              criteria_scores |-> Criteria(80), feedback |-> "approved"]),
      Return([approved |-> TRUE, overall_score |-> 40,
              criteria_scores |-> Criteria(40), feedback |-> "approved"]),
      Return([approved |-> FALSE, overall_score |-> 40,
              criteria_scores |-> Criteria(40),
              feedback |-> "Mention the refund policy"]),
      Return([approved |-> FALSE, overall_score |-> 80,
              criteria_scores |-> Criteria(80),
              feedback |-> "Explain cache and cookies"]),
      Return([approved |-> TRUE, overall_score |-> 150,
              criteria_scores |-> Criteria(100), feedback |-> "approved"]),
      Return([approved |-> TRUE, overall_score |-> -20,
              criteria_scores |-> Criteria(0), feedback |-> "approved"]),
      Return([response |-> "The draft looks fine."]) }

\* Outcomes of the escalation log write (DataFrame.to_csv): done or raised.
LogWriteOutcomes == {TRUE, FALSE}

\* Rows the escalation log may already hold when the run starts.
MaxLogRows == 1

(***************************************************************************)
(* State                                                                   *)
(***************************************************************************)
VARIABLES
    state,            \* the AgentState of the run (the graph's channels)
    pc,               \* the node the graph runs next, "END", or "error"
    stream,           \* the nodes whose updates app.stream has yielded so far
    escalation_log,   \* escalation_log.csv
    final_state,      \* process_ticket's final_state: the last update yielded
    output,           \* what the entry point has returned, None before that
    checkpoint,       \* the MemorySaver's latest checkpoint of thread "default"
    log_writers,      \* the log writes of concurrently escalating runs
    kb_call           \* a call of MockKnowledgeBase.retrieve and its result

vars == <<state, pc, stream, escalation_log, final_state, output, checkpoint,
          log_writers, kb_call>>

\* AgentState(ticket=ticket): every other field at its default
AgentState(ticket) ==
    [ticket |-> ticket,
     classification |-> None,
     retrieval |-> None,
     draft |-> None,
     review |-> None,
     attempt_count |-> 0,
     max_attempts |-> MaxAttempts,
     all_drafts |-> <<>>,
     all_reviews |-> <<>>,
     final_response |-> None,
     escalation |-> None,
     workflow_complete |-> FALSE,
     needs_escalation |-> FALSE]

\* The graph's state after a node's update: the keys the node returned are
\* overwritten, the others kept.
Merge(s, update) ==
    [k \in DOMAIN s |-> IF k \in DOMAIN update THEN update[k] ELSE s[k]]

(***************************************************************************)
(* nodes.py                                                                *)
(***************************************************************************)
\* The except branch of classify_ticket returning no classification.
ClassifyFallback_none ==
    [classification |-> None]

\* The fallback of classify_ticket's except branch.
ClassifyFallback ==
    [classification |-> Some([category |-> "general", confidence |-> 10])]

\* classify_ticket that substitutes general for an unknown category and keeps
\* the confidence the classifier reported.
classify_ticket_keeps_confidence(s, outcome) ==
    IF ~outcome.ok THEN ClassifyFallback
    ELSE LET response == outcome.value
             category_str == Lower(Get(response, "category", "general"))
             reported == Get(response, "confidence", 50)
             known == category_str \in TicketCategory
             category == IF known THEN category_str ELSE "general"
         IN  IF InUnitRange(reported)
             THEN [classification |->
                      Some([category |-> category, confidence |-> reported])]
             ELSE ClassifyFallback

\* classify_ticket: the update it returns, given the classifier's outcome.
classify_ticket(s, outcome) ==
    IF ~outcome.ok THEN ClassifyFallback
    ELSE LET response == outcome.value
             category_str == Lower(Get(response, "category", "general"))
             reported == Get(response, "confidence", 50)
             known == category_str \in TicketCategory
             category == IF known THEN category_str ELSE "general"
             confidence == IF known THEN reported ELSE 30
         IN  IF InUnitRange(confidence)
             THEN [classification |->
                     Some([category |-> category, confidence |-> confidence])]
             ELSE ClassifyFallback   \* ClassificationResult's validation raised

\* retrieve_context raises ValueError
retrieve_context_raises(s) == ~IsSet(s.classification)

\* The query without the reviewer's feedback on a retry.
RetrievalQuery_no_feedback(s) ==
    s.ticket.subject \o " " \o s.ticket.description

\* The query retrieve_context builds.
RetrievalQuery(s) ==
    LET query == s.ticket.subject \o " " \o s.ticket.description
    IN  IF s.all_reviews # <<>> /\ s.attempt_count > 0
        THEN query \o " " \o s.all_reviews[Len(s.all_reviews)].feedback
        ELSE query


\* generate_draft raises ValueError
generate_draft_raises(s) == ~IsSet(s.classification) \/ ~IsSet(s.retrieval)

\* The text of generate_draft's fallback draft.
FallbackDraftText ==
    "I apologize, but I'm having trouble processing your request right now. Please contact our support team directly for immediate assistance."

\* generate_draft whose except branch records the fallback draft without
\* counting the attempt.
generate_draft_uncounted_fallback(s, outcome) ==
    LET content == IF outcome.ok THEN Strip(outcome.value)
                   ELSE FallbackDraftText
        draft == [content |-> content, attempt_number |-> s.attempt_count + 1]
    IN  IF outcome.ok
        THEN [draft |-> Some(draft),
              attempt_count |-> s.attempt_count + 1,
              all_drafts |-> Append(s.all_drafts, draft)]
        ELSE [draft |-> Some(draft)]

\* generate_draft whose fallback draft carries the number of the attempt
\* before it.
generate_draft_stale_number(s, outcome) ==
    LET content == IF outcome.ok THEN Strip(outcome.value)
                   ELSE FallbackDraftText
        draft == [content |-> content,
                  attempt_number |-> IF outcome.ok THEN s.attempt_count + 1
                                     ELSE s.attempt_count]
    IN  [draft |-> Some(draft),
         attempt_count |-> s.attempt_count + 1,
         all_drafts |-> Append(s.all_drafts, draft)]

\* generate_draft that returns no draft when the generator raised.
generate_draft_drops_failed(s, outcome) ==
    LET draft == [content |-> Strip(outcome.value),
                  attempt_number |-> s.attempt_count + 1]
    IN  IF outcome.ok
        THEN [draft |-> Some(draft),
              attempt_count |-> s.attempt_count + 1,
              all_drafts |-> Append(s.all_drafts, draft)]
        ELSE [attempt_count |-> s.attempt_count + 1]

\* generate_draft that numbers its drafts from 0.
generate_draft_zero_based(s, outcome) ==
    LET content == IF outcome.ok THEN Strip(outcome.value)
                   ELSE FallbackDraftText
        draft == [content |-> content, attempt_number |-> s.attempt_count]
    IN  [draft |-> Some(draft),
         attempt_count |-> s.attempt_count + 1,
         all_drafts |-> Append(s.all_drafts, draft)]

\* generate_draft: the update it returns, given the generator's outcome.
generate_draft(s, outcome) ==
    LET content == IF outcome.ok THEN Strip(outcome.value)
                   ELSE FallbackDraftText
        draft == [content |-> content, attempt_number |-> s.attempt_count + 1]
    IN  [draft |-> Some(draft),
         attempt_count |-> s.attempt_count + 1,
         all_drafts |-> Append(s.all_drafts, draft)]

\* review_draft raises ValueError
review_draft_raises(s) == ~IsSet(s.draft)

\* The review of review_draft's except branch.
FallbackReview ==
    [approved |-> FALSE,
     score |-> 30,
     feedback |-> "Unable to complete review due to technical error. Please revise the response.",
     criteria_scores |-> Criteria(30)]

\* ReviewOf whose except branch approves the draft it could not review.
ReviewOf_approving_fallback(outcome) ==
    IF ~outcome.ok THEN [FallbackReview EXCEPT !.approved = TRUE]
    ELSE LET response == outcome.value
             approved == Get(response, "approved", FALSE)
             overall_score == Get(response, "overall_score", 0)
             criteria_scores == Get(response, "criteria_scores", Criteria(0))
             feedback == Get(response, "feedback", "No feedback provided")
         IN  IF InUnitRange(overall_score)
             THEN [approved |-> approved, score |-> overall_score,
                   feedback |-> feedback, criteria_scores |-> criteria_scores]
             ELSE FallbackReview

\* The ReviewResult review_draft builds, given the evaluator's outcome.
ReviewOf(outcome) ==
    IF ~outcome.ok THEN FallbackReview
    ELSE LET response == outcome.value
             approved == Get(response, "approved", FALSE)
             overall_score == Get(response, "overall_score", 0)
             criteria_scores == Get(response, "criteria_scores", Criteria(0))
             feedback == Get(response, "feedback", "No feedback provided")
         IN  IF InUnitRange(overall_score)
             THEN [approved |-> approved, score |-> overall_score,
                   feedback |-> feedback, criteria_scores |-> criteria_scores]
             ELSE FallbackReview   \* ReviewResult's validation raised

\* review_draft whose except branch leaves the fallback review out of the
\* history.
review_draft_unlogged_fallback(s, outcome) ==
    LET review == ReviewOf(outcome)
    IN  IF outcome.ok
        THEN [review |-> Some(review),
              all_reviews |-> Append(s.all_reviews, review)]
        ELSE [review |-> Some(review)]

\* review_draft: the update it returns, given the evaluator's outcome.
review_draft(s, outcome) ==
    LET review == ReviewOf(outcome)
    IN  [review |-> Some(review),
         all_reviews |-> Append(s.all_reviews, review)]

\* kb.retrieve(query, category, max_results=3) for every query a run over the
\* inputs above can build, computed once: the same function, tabulated.
RetrieveTable ==
    LET texts == { t.subject \o " " \o t.description : t \in Tickets }
        feedbacks == { ReviewOf(o).feedback : o \in EvaluatorOutcomes }
        queries == texts \cup { x \o " " \o f : x \in texts, f \in feedbacks }
    IN  [q \in queries, c \in TicketCategory |-> KbRetrieve(q, c, 3)]

\* kb.retrieve(query=query, category=category, max_results=3)
Retrieve3(query, category) ==
    IF <<query, category>> \in DOMAIN RetrieveTable
    THEN RetrieveTable[query, category]
    ELSE KbRetrieve(query, category, 3)

\* retrieve_context that classifies the ticket anew on a retry.
retrieve_context_reclassifies(s) ==
    LET query == RetrievalQuery(s)
        snippets == Retrieve3(query, Val(s.classification).category)
        retrieval == Some([snippets |-> snippets, query_used |-> query])
    IN  IF s.attempt_count > 0
        THEN [retrieval |-> retrieval,
              classification |->
                 Some([category |-> "general", confidence |-> 30])]
        ELSE [retrieval |-> retrieval]

\* retrieve_context that searches the general catalogue whatever the
\* classification.
retrieve_context_general_catalogue(s) ==
    LET query == RetrievalQuery(s)
        snippets == Retrieve3(query, "general")
    IN  [retrieval |-> Some([snippets |-> snippets, query_used |-> query])]

\* retrieve_context: the update it returns.
retrieve_context(s) ==
    LET query == RetrievalQuery(s)
        snippets == Retrieve3(query, Val(s.classification).category)
    IN  [retrieval |-> Some([snippets |-> snippets, query_used |-> query])]

\* finalize_response raises ValueError
finalize_response_raises(s) == ~IsSet(s.draft) \/ ~IsSet(s.review)

\* finalize_response that returns the first draft of the history.
finalize_response_first_draft(s) ==
    [final_response |-> Some(s.all_drafts[1].content),
     workflow_complete |-> TRUE]

\* finalize_response that also clears the review it has consumed.
finalize_response_clears_review(s) ==
    [final_response |-> Some(Val(s.draft).content),
     workflow_complete |-> TRUE,
     review |-> None]

\* finalize_response: the update it returns.
finalize_response(s) ==
    [final_response |-> Some(Val(s.draft).content),
     workflow_complete |-> TRUE]

\* EscalationDetails that carries the current draft only.
EscalationDetails_current_draft(s) ==
    [needed |-> TRUE,
     details |-> "Ticket failed after " \o ToString(s.attempt_count)
                   \o " attempts. Requires human review.",
     original_ticket |-> s.ticket,
     failed_drafts |-> s.draft,
     reviewer_feedback |->
        [i \in DOMAIN s.all_reviews |-> s.all_reviews[i].feedback]]

\* The EscalationDetails that keep the feedback of the last Review alone.
EscalationDetails_last_feedback(s) ==
    [needed |-> TRUE,
     details |-> "Ticket failed after " \o ToString(s.attempt_count)
                   \o " attempts. Requires human review.",
     original_ticket |-> s.ticket,
     failed_drafts |-> s.all_drafts,
     reviewer_feedback |-> <<s.all_reviews[Len(s.all_reviews)].feedback>>]

\* The EscalationDetails escalate_ticket builds.
EscalationDetails(s) ==
    [needed |-> TRUE,
     details |-> "Ticket failed after " \o ToString(s.attempt_count)
                   \o " attempts. Requires human review.",
     original_ticket |-> s.ticket,
     failed_drafts |-> s.all_drafts,
     reviewer_feedback |->
        [i \in DOMAIN s.all_reviews |-> s.all_reviews[i].feedback]]

\* escalate_ticket that sets the flags and forgets the escalation record.
escalate_ticket_flags_only(s) ==
    [needs_escalation |-> TRUE,
     workflow_complete |-> TRUE]

\* escalate_ticket: the update it returns (the same whether or not the log
\* write raised).
escalate_ticket(s) ==
    [escalation |-> Some(EscalationDetails(s)),
     needs_escalation |-> TRUE,
     workflow_complete |-> TRUE]

\* The row escalate_ticket logs (its timestamp left out).
EscalationRow(s) ==
    [subject |-> s.ticket.subject,
     description |-> s.ticket.description,
     category |-> IF IsSet(s.classification)
                  THEN Val(s.classification).category ELSE "unknown",
     attempts |-> s.attempt_count,
     final_score |-> IF s.all_reviews # <<>>
                     THEN s.all_reviews[Len(s.all_reviews)].score ELSE 0,
     final_feedback |-> IF s.all_reviews # <<>>
                        THEN s.all_reviews[Len(s.all_reviews)].feedback
                        ELSE "No feedback"]

\* The log file after escalate_ticket's write: appended to when the file
\* exists, created with a header otherwise; unchanged when the write raised.
LogAfterWrite(log, row, written) ==
    IF ~written THEN log
    ELSE IF log.exists
         THEN [log EXCEPT !.rows = Append(@, row)]
         ELSE [exists |-> TRUE, header |-> TRUE, rows |-> <<row>>]

\* should_retry with > for >= in the bound check.
should_retry_gt(s) ==
    IF ~IsSet(s.review) THEN "escalate_ticket"
    ELSE IF Val(s.review).approved THEN "finalize_response"
    ELSE IF s.attempt_count > s.max_attempts THEN "escalate_ticket"
    ELSE "retrieve_context"

\* should_retry with the bound check ahead of the approval check.
should_retry_bound_first(s) ==
    IF ~IsSet(s.review) THEN "escalate_ticket"
    ELSE IF s.attempt_count >= s.max_attempts THEN "escalate_ticket"
    ELSE IF Val(s.review).approved THEN "finalize_response"
    ELSE "retrieve_context"

\* should_retry that applies the 0.75 threshold to the score itself.
should_retry_by_score(s) ==
    IF ~IsSet(s.review) THEN "escalate_ticket"
    ELSE IF Val(s.review).score >= 75 THEN "finalize_response"
    ELSE IF s.attempt_count >= s.max_attempts THEN "escalate_ticket"
    ELSE "retrieve_context"

\* should_retry that lets a high score through at the bound.
should_retry_score_at_bound(s) ==
    IF ~IsSet(s.review) THEN "escalate_ticket"
    ELSE IF Val(s.review).approved THEN "finalize_response"
    ELSE IF s.attempt_count >= s.max_attempts
         THEN (IF Val(s.review).score >= 75 THEN "finalize_response"
               ELSE "escalate_ticket")
    ELSE "retrieve_context"

\* should_retry that finalizes an approved review only when its score reaches
\* the threshold 0.75.
should_retry_threshold(s) ==
    IF ~IsSet(s.review) THEN "escalate_ticket"
    ELSE IF Val(s.review).approved /\ Val(s.review).score >= 75
         THEN "finalize_response"
    ELSE IF s.attempt_count >= s.max_attempts THEN "escalate_ticket"
    ELSE "retrieve_context"

\* should_retry whose retry goes straight to generate_draft.
should_retry_skips_retrieve(s) ==
    IF ~IsSet(s.review) THEN "escalate_ticket"
    ELSE IF Val(s.review).approved THEN "finalize_response"
    ELSE IF s.attempt_count >= s.max_attempts THEN "escalate_ticket"
    ELSE "generate_draft"

\* should_retry: the node the conditional edge after review_draft selects.
should_retry(s) ==
    IF ~IsSet(s.review) THEN "escalate_ticket"
    ELSE IF Val(s.review).approved THEN "finalize_response"
    ELSE IF s.attempt_count >= s.max_attempts THEN "escalate_ticket"
    ELSE "retrieve_context"

(***************************************************************************)
(* agent.py: the output of process_ticket                                  *)
(***************************************************************************)
\* Python truthiness of an Optional[str]: set and not empty.
Truthy(opt) == IsSet(opt) /\ Val(opt) # ""

\* AgentState(**last_node_output), once the ticket has been added to the
\* update: the keys of the last update over the defaults of every other field.
FinalAgentState(ticket, last_node_output) ==
    Merge(AgentState(ticket), last_node_output)

\* _format_output that never reports an escalation.
format_output_never_escalated(s) ==
    [category |-> IF IsSet(s.classification)
                  THEN Val(s.classification).category ELSE "general",
     context |-> <<>>,
     draft |-> IF Truthy(s.final_response) THEN Val(s.final_response)
               ELSE "No response generated",
     approved |-> Truthy(s.final_response),
     score |-> IF Truthy(s.final_response) THEN 100 ELSE 0,
     feedback |-> IF Truthy(s.final_response) THEN "approved"
                  ELSE "No review completed",
     escalation |-> [needed |-> FALSE, details |-> None]]

\* _format_output: the FinalOutput of an AgentState.
format_output(s) ==
    LET context ==
            IF IsSet(s.retrieval) /\ Val(s.retrieval).snippets # <<>>
            THEN [i \in DOMAIN Val(s.retrieval).snippets |->
                     Val(s.retrieval).snippets[i].content]
            ELSE <<>>
        draft_content ==
            IF Truthy(s.final_response) THEN Val(s.final_response)
            ELSE IF IsSet(s.draft) THEN Val(s.draft).content
            ELSE "No response generated"
        review ==
            IF IsSet(s.review)
            THEN [approved |-> Val(s.review).approved,
                  score |-> Val(s.review).score,
                  feedback |-> IF ~Val(s.review).approved
                               THEN Val(s.review).feedback ELSE "approved"]
            ELSE IF Truthy(s.final_response)
            THEN [approved |-> TRUE, score |-> 100, feedback |-> "approved"]
            ELSE [approved |-> FALSE, score |-> 0,
                  feedback |-> "No review completed"]
        escalation_dict ==
            IF IsSet(s.escalation)
            THEN [needed |-> Val(s.escalation).needed,
                  details |-> Some(Val(s.escalation).details)]
            ELSE IF s.needs_escalation
            THEN [needed |-> TRUE,
                  details |->
                     Some("Ticket escalated after maximum retry attempts")]
            ELSE [needed |-> FALSE, details |-> None]
    IN  [category |-> IF IsSet(s.classification)
                      THEN Val(s.classification).category ELSE "general",
         context |-> context,
         draft |-> draft_content,
         approved |-> review.approved,
         score |-> review.score,
         feedback |-> review.feedback,
         escalation |-> escalation_dict]

\* The error output whose escalation block says no escalation is needed.
ErrorOutput_not_escalated(e) ==
    [category |-> "general",
     context |-> <<>>,
     draft |-> "I apologize, but there was an error processing your request. Please contact support directly.",
     approved |-> FALSE,
     score |-> 0,
     feedback |-> "System error: " \o e,
     escalation |-> [needed |-> FALSE, details |-> None]]

\* The FinalOutput the except branch of process_ticket returns for the
\* exception with message e.
ErrorOutput(e) ==
    [category |-> "general",
     context |-> <<>>,
     draft |-> "I apologize, but there was an error processing your request. Please contact support directly.",
     approved |-> FALSE,
     score |-> 0,
     feedback |-> "System error: " \o e,
     escalation |-> [needed |-> TRUE,
                     details |-> Some("System error during processing: " \o e)]]

(***************************************************************************)
(* agent.py: the workflow                                                  *)
(***************************************************************************)
\* The states of escalation_log.csv a run may start with: no file, or a file
\* with its header and the rows of earlier escalations.
EarlierRow ==
    [subject |-> "Old ticket", description |-> "Escalated earlier",
     category |-> "general", attempts |-> MaxAttempts, final_score |-> 30,
     final_feedback |-> "Needs a human"]

InitialLogs ==
    { [exists |-> FALSE, header |-> FALSE, rows |-> <<>>] } \cup
    { [exists |-> TRUE, header |-> TRUE, rows |-> [i \in 1..n |-> EarlierRow]] :
        n \in 0..MaxLogRows }

\* process_ticket up to the start of the stream: the initial AgentState of
\* the ticket enters the graph at its entry point.
Init ==
    /\ \E ticket \in Tickets : state = AgentState(ticket)
    /\ pc = "classify_ticket"
    /\ stream = <<>>
    /\ escalation_log \in InitialLogs
    /\ final_state = None
    /\ output = None
    /\ checkpoint = None
    /\ log_writers = <<>>
    /\ kb_call = None

\* A node's update is merged into the state, saved as the thread's checkpoint
\* and yielded by the stream, where process_ticket's loop keeps it as
\* final_state.
Step(node, update, next) ==
    /\ state' = Merge(state, update)
    /\ stream' = Append(stream, node)
    /\ final_state' = Some(update)
    /\ checkpoint' = Some(Merge(state, update))
    /\ pc' = next
    /\ UNCHANGED <<output, log_writers, kb_call>>

\* An exception e leaves the try block of process_ticket: the stream ends and
\* the except branch returns the error output.
Fault(e) ==
    /\ pc' = "error"
    /\ output' = Some(ErrorOutput(e))
    /\ UNCHANGED <<state, stream, final_state, checkpoint, log_writers, kb_call>>

\* classify_ticket, then the edge to retrieve_context
Classify ==
    /\ pc = "classify_ticket"
    /\ \E outcome \in ClassifierOutcomes :
         Step("classify_ticket", classify_ticket(state, outcome),
              "retrieve_context")
    /\ UNCHANGED escalation_log

\* retrieve_context, then the edge to generate_draft
Retrieve ==
    /\ pc = "retrieve_context"
    /\ IF retrieve_context_raises(state)
       THEN Fault("Classification must be completed before retrieval")
       ELSE Step("retrieve_context", retrieve_context(state), "generate_draft")
    /\ UNCHANGED escalation_log

\* generate_draft, then the edge to review_draft
Draft ==
    /\ pc = "generate_draft"
    /\ IF generate_draft_raises(state)
       THEN Fault("Classification and retrieval must be completed before drafting")
       ELSE \E outcome \in GeneratorOutcomes :
              Step("generate_draft", generate_draft(state, outcome),
                   "review_draft")
    /\ UNCHANGED escalation_log

\* review_draft, then the conditional edge: should_retry on the updated state
Review ==
    /\ pc = "review_draft"
    /\ IF review_draft_raises(state)
       THEN Fault("Draft must be generated before review")
       ELSE \E outcome \in EvaluatorOutcomes :
              LET update == review_draft(state, outcome)
              IN  Step("review_draft", update,
                       should_retry(Merge(state, update)))
    /\ UNCHANGED escalation_log

\* finalize_response, then the edge to END
Finalize ==
    /\ pc = "finalize_response"
    /\ IF finalize_response_raises(state)
       THEN Fault("Draft and review must be completed before finalization")
       ELSE Step("finalize_response", finalize_response(state), "END")
    /\ UNCHANGED escalation_log

\* escalate_ticket without the try block around its log write: a write that
\* raises ends the run with the exception.
Escalate_log_failure_raises ==
    /\ pc = "escalate_ticket"
    /\ \E written \in LogWriteOutcomes :
         /\ escalation_log' =
               LogAfterWrite(escalation_log, EscalationRow(state), written)
         /\ IF written
            THEN Step("escalate_ticket", escalate_ticket(state), "END")
            ELSE Fault("Permission denied: 'escalation_log.csv'")

\* escalate_ticket (with its log write), then the edge to END
Escalate ==
    /\ pc = "escalate_ticket"
    /\ \E written \in LogWriteOutcomes :
         escalation_log' =
            LogAfterWrite(escalation_log, EscalationRow(state), written)
    /\ Step("escalate_ticket", escalate_ticket(state), "END")

\* process_ticket once the stream is exhausted: the last update yielded is made
\* an AgentState and formatted, and the output returned.
Format ==
    /\ pc = "END"
    /\ ~IsSet(output)
    /\ IF ~IsSet(final_state)
       THEN Fault("Workflow did not produce a final state")
       ELSE /\ output' = Some(format_output(
                              FinalAgentState(state.ticket, Val(final_state))))
            /\ UNCHANGED <<state, pc, stream, final_state, checkpoint,
                           log_writers, kb_call>>
    /\ UNCHANGED escalation_log

Next ==
    Classify \/ Retrieve \/ Draft \/ Review \/ Finalize \/ Escalate \/ Format

Spec == Init /\ [][Next]_vars

\* The graph runner runs the pending node: a run is never left mid-way.
FairSpec == Spec /\ WF_vars(Next)

(***************************************************************************)
(* main.py: the JSON entry point, and faults inside process_ticket         *)
(***************************************************************************)
\* Outcomes of json.loads(ticket_json): the text is not JSON, or it is the
\* object given (a ticket, a ticket with a further key, an object without
\* description, an empty object).
JsonLoadOutcomes ==
    { Raise,
      Return([subject |-> "Can't log in",
              description |-> "Password reset link not working"]),
      Return([subject |-> "Refund request",
              description |-> "I want my money back", priority |-> "high"]),
      Return([subject |-> "Refund request"]),
      Return([note |-> "no ticket here"]) }

\* SupportTicket(**ticket_data) validates: both required fields are given.
ValidTicketData(ticket_data) ==
    {"subject", "description"} \subseteq DOMAIN ticket_data

\* SupportTicket(**ticket_data): the two fields of the model, other keys
\* ignored.
SupportTicket(ticket_data) ==
    [subject |-> ticket_data.subject, description |-> ticket_data.description]

\* The dict the except branch of process_ticket_from_json returns for the
\* exception with message e.
JsonErrorOutput(e) ==
    [error |-> e,
     category |-> "general",
     context |-> <<>>,
     draft |-> "Error processing ticket",
     approved |-> FALSE,
     score |-> 0,
     feedback |-> "Processing error: " \o e,
     escalation |-> [needed |-> TRUE, details |-> Some("Error: " \o e)]]

\* Exceptions app.stream may raise besides the nodes' own ValueErrors: a
\* statement of a node outside its try block fails (a print to a stream that
\* cannot encode it), or the graph runtime does.
StreamFaults ==
    { "'ascii' codec can't encode character", "Recursion limit reached" }

\* The nodes of the graph.
Nodes ==
    { "classify_ticket", "retrieve_context", "generate_draft", "review_draft",
      "finalize_response", "escalate_ticket" }

\* process_ticket_from_json is called with a JSON text; no run has started.
EntryInit ==
    /\ state = None
    /\ pc = "process_ticket_from_json"
    /\ stream = <<>>
    /\ escalation_log \in InitialLogs
    /\ final_state = None
    /\ output = None
    /\ checkpoint = None
    /\ log_writers = <<>>
    /\ kb_call = None

\* process_ticket_from_json up to the call of process_ticket: the text is
\* parsed and validated; a failure returns the error dict, a ticket starts
\* the run.
ParseTicket ==
    /\ pc = "process_ticket_from_json"
    /\ \E loaded \in JsonLoadOutcomes :
         IF ~loaded.ok
         THEN /\ pc' = "error"
              /\ output' = Some(JsonErrorOutput("Expecting value"))
              /\ UNCHANGED state
         ELSE IF ~ValidTicketData(loaded.value)
         THEN /\ pc' = "error"
              /\ output' = Some(JsonErrorOutput(
                                  "validation error for SupportTicket"))
              /\ UNCHANGED state
         ELSE /\ state' = AgentState(SupportTicket(loaded.value))
              /\ pc' = "classify_ticket"
              /\ UNCHANGED output
    /\ UNCHANGED <<stream, final_state, escalation_log, checkpoint,
                   log_writers, kb_call>>

\* app.stream raises while a node is pending.
StreamRaises ==
    /\ pc \in Nodes
    /\ \E e \in StreamFaults : Fault(e)
    /\ UNCHANGED escalation_log

EntryNext ==
    \/ ParseTicket
    \/ StreamRaises
    \/ Classify \/ Retrieve \/ Draft \/ Review \/ Finalize \/ Escalate
    \/ Format

EntrySpec == EntryInit /\ [][EntryNext]_vars

(***************************************************************************)
(* should_retry as a function of any AgentState                            *)
(***************************************************************************)
\* The largest attempt_count should_retry is applied to.
MaxDecisionCount == 3

\* The AgentStates should_retry is applied to: any review or none, any
\* attempt_count up to MaxDecisionCount.
DecisionInit ==
    /\ \E ticket \in Tickets, n \in 0..MaxDecisionCount,
          review \in {None} \cup { Some(ReviewOf(o)) : o \in EvaluatorOutcomes } :
          state = [AgentState(ticket) EXCEPT !.review = review,
                                             !.attempt_count = n]
    /\ pc = "should_retry"
    /\ stream = <<>>
    /\ escalation_log \in InitialLogs
    /\ final_state = None
    /\ output = None
    /\ checkpoint = None
    /\ log_writers = <<>>
    /\ kb_call = None

\* The conditional edge evaluates should_retry.
Decide ==
    /\ pc = "should_retry"
    /\ pc' = should_retry(state)
    /\ UNCHANGED <<state, stream, escalation_log, final_state, output,
                   checkpoint, log_writers, kb_call>>

DecisionSpec == DecisionInit /\ [][Decide]_vars

(***************************************************************************)
(* Runs that share the agent: one MemorySaver, one thread id "default"     *)
(***************************************************************************)
\* The input of app.stream that carries the ticket alone.
RunInput_ticket_only(ticket) ==
    [ticket |-> ticket]

\* The input process_ticket gives app.stream: initial_state.dict(), every
\* field of a fresh AgentState.
RunInput(ticket) ==
    AgentState(ticket)

\* The state a run starts with: the input written over the channels of the
\* thread's checkpoint (over the defaults when the thread has none).
StartState(saved, input) ==
    Merge(IF IsSet(saved) THEN Val(saved) ELSE AgentState(input.ticket), input)

\* The ticket of another run of the same agent.
PeerTicket ==
    [subject |-> "Suspicious activity",
     description |-> "Unauthorized login on my account"]

\* The other run after its first generate_draft.
PeerDrafted ==
    LET classified ==
            [AgentState(PeerTicket) EXCEPT !.classification =
                Some([category |-> "security", confidence |-> 90])]
        draft == [content |-> "Please change your password.",
                  attempt_number |-> 1]
    IN  [classified EXCEPT
            !.retrieval = retrieve_context(classified).retrieval,
            !.draft = Some(draft),
            !.attempt_count = 1,
            !.all_drafts = <<draft>>]

\* The other run finalized after its first review.
PeerFinalized ==
    LET review == [approved |-> TRUE, score |-> 80, feedback |-> "approved",
                   criteria_scores |-> Criteria(80)]
    IN  [PeerDrafted EXCEPT
            !.review = Some(review),
            !.all_reviews = <<review>>,
            !.final_response = Some(Val(PeerDrafted.draft).content),
            !.workflow_complete = TRUE]

\* The other run escalated after two fallback drafts' worth of rejections.
PeerEscalated ==
    LET draft == [content |-> FallbackDraftText, attempt_number |-> 2]
        rejected ==
            [PeerDrafted EXCEPT
                !.draft = Some(draft),
                !.attempt_count = 2,
                !.all_drafts = Append(PeerDrafted.all_drafts, draft),
                !.review = Some(FallbackReview),
                !.all_reviews = <<FallbackReview, FallbackReview>>]
    IN  [rejected EXCEPT
            !.escalation = Some(EscalationDetails(rejected)),
            !.needs_escalation = TRUE,
            !.workflow_complete = TRUE]

\* States of the other run that the MemorySaver holds as the checkpoint of
\* thread "default": in the middle of its first cycle, finalized, escalated.
PeerStates == {PeerDrafted, PeerFinalized, PeerEscalated}

\* process_ticket starts a run on an agent whose thread "default" has no
\* checkpoint yet, or has the checkpoint an earlier or concurrent run left.
SessionInit ==
    /\ \E ticket \in Tickets,
          saved \in {None} \cup { Some(s) : s \in PeerStates } :
          state = StartState(saved, RunInput(ticket))
    /\ checkpoint = Some(state)
    /\ pc = "classify_ticket"
    /\ stream = <<>>
    /\ escalation_log \in InitialLogs
    /\ final_state = None
    /\ output = None
    /\ log_writers = <<>>
    /\ kb_call = None

\* A concurrent run on the same agent and thread saves a checkpoint of its
\* own while this run is in progress.
PeerWrites ==
    /\ pc \in Nodes
    /\ \E s \in PeerStates : checkpoint' = Some(s)
    /\ checkpoint' # checkpoint
    /\ UNCHANGED <<state, pc, stream, escalation_log, final_state, output,
                   log_writers, kb_call>>

SessionNext ==
    \/ PeerWrites
    \/ Classify \/ Retrieve \/ Draft \/ Review \/ Finalize \/ Escalate
    \/ Format

SessionSpec == SessionInit /\ [][SessionNext]_vars

(***************************************************************************)
(* Concurrent escalations: the log write of escalate_ticket, step by step  *)
(***************************************************************************)
\* The number of runs that escalate at the same time.
MaxWriters == 2

\* The row an escalated run of the ticket logs (evaluator failed throughout).
RowOf(ticket) ==
    EscalationRow([AgentState(ticket) EXCEPT
                      !.classification =
                          Some([category |-> "general", confidence |-> 10]),
                      !.attempt_count = MaxAttempts,
                      !.all_reviews = <<FallbackReview, FallbackReview>>])

\* The file after a write chosen by what os.path.exists returned before it:
\* appended to (mode 'a', no header) when the file was seen, written anew
\* with a header (mode 'w') when it was not.
LogAfterSeen(log, row, exists_seen) ==
    IF exists_seen
    THEN [exists |-> TRUE, header |-> log.header, rows |-> Append(log.rows, row)]
    ELSE [exists |-> TRUE, header |-> TRUE, rows |-> <<row>>]

\* Every run has reached the log write of escalate_ticket.
LogInit ==
    /\ log_writers \in
          [1..MaxWriters ->
              { [at |-> "exists", exists_seen |-> FALSE, written |-> FALSE,
                 row |-> RowOf(ticket)] : ticket \in Tickets }]
    /\ escalation_log \in InitialLogs
    /\ pc = "escalate_ticket"
    /\ state = None
    /\ stream = <<>>
    /\ final_state = None
    /\ output = None
    /\ checkpoint = None
    /\ kb_call = None

\* A run evaluates os.path.exists(csv_file).
LogCheck(r) ==
    /\ log_writers[r].at = "exists"
    /\ log_writers' = [log_writers EXCEPT
                          ![r].at = "to_csv",
                          ![r].exists_seen = escalation_log.exists]
    /\ UNCHANGED <<state, pc, stream, escalation_log, final_state, output,
                   checkpoint, kb_call>>

\* A run calls to_csv in the mode chosen by what it saw; the write is done
\* or raises.
LogWrite(r) ==
    /\ log_writers[r].at = "to_csv"
    /\ \E written \in LogWriteOutcomes :
         /\ log_writers' = [log_writers EXCEPT
                               ![r].at = "done", ![r].written = written]
         /\ escalation_log' =
               IF written
               THEN LogAfterSeen(escalation_log, log_writers[r].row,
                                 log_writers[r].exists_seen)
               ELSE escalation_log
    /\ UNCHANGED <<state, pc, stream, final_state, output, checkpoint,
                   kb_call>>

LogNext ==
    \/ \E r \in 1..MaxWriters : LogCheck(r)
    \/ \E r \in 1..MaxWriters : LogWrite(r)

LogSpec == LogInit /\ [][LogNext]_vars

(***************************************************************************)
(* MockKnowledgeBase.retrieve as a function of any query, category, limit  *)
(***************************************************************************)
\* The queries retrieve is called with: empty, whitespace alone, the two
\* tickets' texts, single words, words in upper case.
ScorerQueries ==
    { "", " \t ",
      "Can't log in Password reset link not working",
      "Refund request I want my money back",
      "password", "Security settings", "update account", "the", "e" }

\* The categories retrieve is called with: the four of the catalogue and one
\* that is not a key of it.
ScorerCategories == TicketCategory \cup {"urgent"}

\* The largest max_results retrieve is called with.
MaxLimit == 3

\* A call of retrieve is about to be made.
ScorerInit ==
    /\ \E query \in ScorerQueries, category \in ScorerCategories,
          max_results \in 0..MaxLimit :
          kb_call = [query |-> query, category |-> category,
                     max_results |-> max_results,
                     returned |-> FALSE, result |-> <<>>]
    /\ pc = "kb_retrieve"
    /\ state = None
    /\ stream = <<>>
    /\ escalation_log = [exists |-> FALSE, header |-> FALSE, rows |-> <<>>]
    /\ final_state = None
    /\ output = None
    /\ checkpoint = None
    /\ log_writers = <<>>

\* retrieve returns its result.
RetrieveCall ==
    /\ pc = "kb_retrieve"
    /\ kb_call' = [kb_call EXCEPT
                      !.returned = TRUE,
                      !.result = KbRetrieve(kb_call.query, kb_call.category,
                                            kb_call.max_results)]
    /\ pc' = "kb_returned"
    /\ UNCHANGED <<state, stream, escalation_log, final_state, output,
                   checkpoint, log_writers>>

ScorerSpec == ScorerInit /\ [][RetrieveCall]_vars

(***************************************************************************)
(* Properties                                                              *)
(***************************************************************************)
\* How many times node has run so far.
Count(node, seq) == Cardinality({ i \in DOMAIN seq : seq[i] = node })

Last(seq) == seq[Len(seq)]

\* The run is over.
Terminal == pc \in {"END", "error"}

\* Some / no Review of the history is approving.
SomeApproved(s) == \E i \in DOMAIN s.all_reviews : s.all_reviews[i].approved
NoneApproved(s) == ~SomeApproved(s)

\* The run ended in Finalize / in Escalate.
EndedInFinalize == pc = "END" /\ Last(stream) = "finalize_response"
EndedInEscalate == pc = "END" /\ Last(stream) = "escalate_ticket"

\* C1: every run reaches END through Finalize or Escalate, whatever the
\* collaborators return or raise; at no time have more than maxAttempts + 1
\* drafts been generated; and every entry into Retrieve finds attemptCount
\* equal to the number of passes completed before it (0 at first, one more
\* after each pass through the retry loop).
C1_Termination ==
    /\ <>(EndedInFinalize \/ EndedInEscalate)
    /\ [](Count("generate_draft", stream) <= MaxAttempts + 1)
    /\ [](pc = "retrieve_context" =>
            state.attempt_count = Count("retrieve_context", stream))
    /\ [][state'.attempt_count >= state.attempt_count]_vars

\* C1's case: a run that went through the retry loop and ended.
C1_Witness ==
    /\ pc = "END"
    /\ Count("retrieve_context", stream) = 2
    /\ state.attempt_count = 2

\* C2: in every terminal state exactly one of final_response and escalation
\* is set; before the end neither is, and never both.
C2_ExactlyOneOutcome ==
    /\ Terminal => (IsSet(state.final_response) # IsSet(state.escalation))
    /\ ~Terminal => (~IsSet(state.final_response) /\ ~IsSet(state.escalation))

\* C2's case: a run ended by escalation, with no final response.
C2_Witness ==
    /\ pc = "END"
    /\ IsSet(state.escalation)
    /\ ~IsSet(state.final_response)

C4_EscalateIff ==
    pc = "END" =>
        (EndedInEscalate <=>
            (NoneApproved(state) /\ state.attempt_count = state.max_attempts))

\* C4's case: an approving review on the last allowed attempt, so the run
\* ends at the bound without escalating.
C4_Witness ==
    /\ pc = "END"
    /\ state.attempt_count = state.max_attempts
    /\ SomeApproved(state)
    /\ ~EndedInEscalate

\* C5: attempt_count is the number of drafts in every state; the reviews
\* trail the drafts by exactly one between Draft and Review, and are as many
\* as the drafts everywhere else.
C5_HistoryLengths ==
    /\ state.attempt_count = Len(state.all_drafts)
    /\ pc = "review_draft" =>
          Len(state.all_reviews) = state.attempt_count - 1
    /\ pc # "review_draft" =>
          Len(state.all_reviews) = state.attempt_count

\* C5's case: between the second Draft and its Review.
C5_Witness ==
    /\ pc = "review_draft"
    /\ Len(state.all_drafts) = 2
    /\ Len(state.all_reviews) = 1

\* C6: should_retry applies its rules in the order: no review -> Escalate;
\* latest review approved -> Finalize; attempt_count >= max_attempts ->
\* Escalate; otherwise -> Retrieve.  An approved review at the bound
\* finalizes.
C6_DecisionPrecedence ==
    pc # "should_retry" =>
        /\ ~IsSet(state.review) => pc = "escalate_ticket"
        /\ (IsSet(state.review) /\ Val(state.review).approved)
              => pc = "finalize_response"
        /\ (IsSet(state.review) /\ ~Val(state.review).approved
              /\ state.attempt_count >= state.max_attempts)
              => pc = "escalate_ticket"
        /\ (IsSet(state.review) /\ ~Val(state.review).approved
              /\ state.attempt_count < state.max_attempts)
              => pc = "retrieve_context"

\* C6's case: an approved review on the last allowed attempt is finalized.
C6_Witness ==
    /\ pc = "finalize_response"
    /\ IsSet(state.review)
    /\ Val(state.review).approved
    /\ state.attempt_count = state.max_attempts

\* The conditional edge has just been evaluated, at the bound.
DecidedAtBound ==
    /\ stream # <<>>
    /\ Last(stream) = "review_draft"
    /\ state.attempt_count = state.max_attempts

\* C7 as stated: whenever the decision is taken with attempt_count equal to
\* max_attempts, the run goes to Escalate.
C7_EscalateAtBound ==
    DecidedAtBound => pc = "escalate_ticket"

\* C7 as amended: whenever the decision is taken with attempt_count equal to
\* max_attempts and the latest review is not approved, the run goes to
\* Escalate, whatever score the review carries; when the latest review is
\* approved the run goes to Finalize.
C7_EscalateAtBoundUnlessApproved ==
    DecidedAtBound =>
        pc = (IF Val(state.review).approved THEN "finalize_response"
              ELSE "escalate_ticket")

\* C7's case: a rejecting review with a score above the threshold, at the
\* bound.
C7_Witness ==
    /\ DecidedAtBound
    /\ ~Val(state.review).approved
    /\ Val(state.review).score >= 75
    /\ pc = "escalate_ticket"

\* The run ended in Escalate after two attempts, with both drafts recorded
\* as failed.
EscalatedAfterTwo ==
    /\ EndedInEscalate
    /\ IsSet(state.escalation)
    /\ state.attempt_count = 2
    /\ state.max_attempts = 2
    /\ Len(Val(state.escalation).failed_drafts) = 2

\* C8: a run all of whose reviews are rejecting (reported or synthesized)
\* ends, and ends in Escalate with attempt_count = max_attempts = 2 and an
\* escalation holding 2 failed drafts.
C8_AllRejectedEscalates ==
    /\ []((pc = "END" /\ NoneApproved(state)) => EscalatedAfterTwo)
    /\ ([]NoneApproved(state)) => <>EscalatedAfterTwo

\* C8's case: an escalated run whose reviews include a synthesized one.
C8_Witness ==
    /\ pc = "END"
    /\ NoneApproved(state)
    /\ Len(state.all_reviews) = 2
    /\ state.all_reviews[1] = FallbackReview
    /\ state.all_reviews[2] # FallbackReview

\* The run ended in Finalize with the last draft as its final response.
FinalizedLastDraft ==
    /\ EndedInFinalize
    /\ state.final_response = Some(Last(state.all_drafts).content)

\* C9: once a review is approving, it is the last review of the history, only
\* Finalize remains to run (as many Retrieve, Draft and Review steps have run
\* as there are reviews), and the run ends in Finalize with the last draft's
\* content as final response; with approval on attempt 1 the stream is one
\* cycle.
C9_ApprovedFinalizes ==
    /\ [](SomeApproved(state) =>
            /\ \A i \in DOMAIN state.all_reviews :
                  state.all_reviews[i].approved => i = Len(state.all_reviews)
            /\ pc \in {"finalize_response", "END"}
            /\ Count("retrieve_context", stream) = Len(state.all_reviews)
            /\ Count("generate_draft", stream) = Len(state.all_reviews)
            /\ Count("review_draft", stream) = Len(state.all_reviews)
            /\ pc = "END" => FinalizedLastDraft)
    /\ []((pc = "END" /\ state.all_reviews # <<>>
             /\ state.all_reviews[1].approved) =>
            stream = <<"classify_ticket", "retrieve_context", "generate_draft",
                       "review_draft", "finalize_response">>)
    /\ SomeApproved(state) ~> FinalizedLastDraft

\* C9's case: approval on attempt 2, of a draft that differs from the first.
C9_Witness ==
    /\ pc = "END"
    /\ Len(state.all_reviews) = 2
    /\ state.all_reviews[2].approved
    /\ state.all_drafts[1].content # state.all_drafts[2].content

\* C10: right after a Retrieve, the query used is subject and description
\* alone when attempt_count = 0, and otherwise contains the feedback of the
\* last review of the history.
C10_RetryQueryHasFeedback ==
    pc = "generate_draft" =>
        LET query == Val(state.retrieval).query_used
            text == state.ticket.subject \o " " \o state.ticket.description
        IN  IF state.attempt_count > 0
            THEN Contains(Last(state.all_reviews).feedback, query)
            ELSE query = text

\* C10's case: a retry Retrieve after a review with feedback of its own.
C10_Witness ==
    /\ pc = "generate_draft"
    /\ state.attempt_count = 1
    /\ Last(state.all_reviews).feedback = "Explain cache and cookies"
    /\ Val(state.retrieval).query_used # 
          state.ticket.subject \o " " \o state.ticket.description

\* C11: a step of Draft in which the generator raised leaves the run at
\* Review with the fallback draft as the current draft and as the new last
\* entry of all_drafts, numbered attempt_count + 1, and attempt_count one
\* higher than before; it never leaves the counter or the history as they
\* were and never ends the run.
C11_GeneratorFailureCounted ==
    [][(/\ pc = "generate_draft"
        /\ ~generate_draft_raises(state)
        /\ state' = Merge(state, generate_draft(state, Raise)))
       => /\ pc' = "review_draft"
          /\ state'.attempt_count = state.attempt_count + 1
          /\ state'.all_drafts =
                Append(state.all_drafts,
                       [content |-> FallbackDraftText,
                        attempt_number |-> state.attempt_count + 1])
          /\ state'.draft = Some(Last(state'.all_drafts))]_vars

\* The generator raised on the second attempt: its fallback draft awaits
\* review.
C11_Witness ==
    /\ pc = "review_draft"
    /\ state.attempt_count = 2
    /\ Val(state.draft).content = FallbackDraftText
    /\ state.all_drafts[1].content # FallbackDraftText

\* Every Review so far is the one review_draft makes when the evaluator
\* raises.
AllReviewsFailed ==
    \A i \in DOMAIN state.all_reviews : state.all_reviews[i] = ReviewOf(Raise)

\* C12: a step of Review in which the evaluator raised appends one Review
\* with approved false and score 0.3, makes it the current review and does
\* not lead to Finalize; a run in which every Review is such a one ends in
\* Escalate.
C12_EvaluatorFailureRejects ==
    /\ [][(/\ pc = "review_draft"
           /\ ~review_draft_raises(state)
           /\ state' = Merge(state, review_draft(state, Raise)))
          => /\ Len(state'.all_reviews) = Len(state.all_reviews) + 1
             /\ ~Last(state'.all_reviews).approved
             /\ Last(state'.all_reviews).score = 30
             /\ state'.review = Some(Last(state'.all_reviews))
             /\ pc' # "finalize_response"]_vars
    /\ ([]AllReviewsFailed) => <>EndedInEscalate

\* The evaluator raised on both attempts and the run ended in Escalate.
C12_Witness ==
    /\ EndedInEscalate
    /\ Len(state.all_reviews) = MaxAttempts
    /\ AllReviewsFailed

\* C13: a step of Classify in which the classifier raised stores the
\* classification (general, 0.1) and leads to Retrieve; once Classify has
\* run, a classification is present for the rest of the run.
C13_ClassifierFailureNotFatal ==
    /\ [][(/\ pc = "classify_ticket"
           /\ state' = Merge(state, classify_ticket(state, Raise)))
          => /\ state'.classification =
                   Some([category |-> "general", confidence |-> 10])
             /\ pc' = "retrieve_context"]_vars
    /\ [](pc \in (Nodes \cup {"END"}) \ {"classify_ticket"}
            => IsSet(state.classification))

\* The classifier raised and the run went on to retrieval with (general, 0.1).
C13_Witness ==
    /\ pc = "generate_draft"
    /\ state.classification =
          Some([category |-> "general", confidence |-> 10])
    /\ IsSet(state.retrieval)

\* The classifier's reply carries a category / one of the four known
\* categories (compared as classify_ticket compares it, in lower case).
CarriesCategory(response) == "category" \in DOMAIN response
CarriesKnownCategory(response) ==
    CarriesCategory(response) /\ Lower(response.category) \in TicketCategory

FinalOutputFields ==
    {"category", "context", "draft", "approved", "score", "feedback",
     "escalation"}

\* C15: when a fault ends the processing of a ticket (the JSON text is
\* malformed, or an exception leaves the workflow), the entry point has
\* returned an output with every FinalOutput field, approved false, score
\* 0.0, escalation.needed true, and a message in feedback and in the
\* escalation details.
C15_FaultYieldsErrorOutput ==
    pc = "error" =>
        /\ IsSet(output)
        /\ FinalOutputFields \subseteq DOMAIN Val(output)
        /\ Val(output).approved = FALSE
        /\ Val(output).score = 0
        /\ Val(output).escalation.needed = TRUE
        /\ IsSet(Val(output).escalation.details)
        /\ Val(output).feedback # ""

\* An exception left the workflow after the draft had been generated, and the
\* error output was returned.
C15_Witness ==
    /\ pc = "error"
    /\ Len(stream) = 3
    /\ IsSet(output)
    /\ Val(output).escalation.needed

\* The contents of the snippets of a RetrievalResult, in order.
Contents(retrieval) ==
    [i \in DOMAIN retrieval.snippets |-> retrieval.snippets[i].content]

\* C16: the output of a run that ended in Finalize or Escalate has the
\* category of the run's classification and, as context, the contents of the
\* snippets of the run's latest retrieval, in order.
C16_OutputCategoryAndContext ==
    (pc = "END" /\ IsSet(output)) =>
        /\ Val(output).category = Val(state.classification).category
        /\ Val(output).context = Contents(Val(state.retrieval))

\* C17: the output of a run that ended in Finalize has the final response as
\* its draft, the output of a run that ended in Escalate the content of the
\* latest draft; in both, approved and score are those of the most recent
\* Review.
C17_OutputDraftAndReview ==
    (pc = "END" /\ IsSet(output)) =>
        /\ Val(output).draft =
              IF EndedInFinalize THEN Val(state.final_response)
              ELSE Val(state.draft).content
        /\ Val(output).approved = Val(state.review).approved
        /\ Val(output).score = Val(state.review).score

\* C18: the escalation block of the output has needed true exactly when the
\* run ended in Escalate or in a fault, and is {needed: false, details: null}
\* for a run that ended in Finalize; no output is both approved and in need
\* of escalation.
C18_EscalationBlock ==
    IsSet(output) =>
        /\ Val(output).escalation.needed <=> (EndedInEscalate \/ pc = "error")
        /\ EndedInFinalize =>
              Val(output).escalation = [needed |-> FALSE, details |-> None]
        /\ ~(Val(output).approved /\ Val(output).escalation.needed)

\* A run ended in Escalate and its output reports the escalation.
C18_Witness ==
    /\ EndedInEscalate
    /\ IsSet(output)
    /\ Val(output).escalation.needed
    /\ IsSet(Val(output).escalation.details)

\* C19: the escalation record holds the ticket of the run, all_drafts as
\* failed_drafts and the feedback of every Review, in order, as
\* reviewer_feedback; both are attempt_count long.
C19_EscalationRecord ==
    IsSet(state.escalation) =>
        LET e == Val(state.escalation)
        IN  /\ e.original_ticket = state.ticket
            /\ e.original_ticket \in Tickets
            /\ e.failed_drafts = state.all_drafts
            /\ e.reviewer_feedback =
                  [i \in DOMAIN state.all_reviews |->
                      state.all_reviews[i].feedback]
            /\ Len(e.failed_drafts) = state.attempt_count
            /\ Len(e.reviewer_feedback) = state.attempt_count

\* A run escalated after two Reviews with different feedback.
C19_Witness ==
    /\ EndedInEscalate
    /\ Len(Val(state.escalation).reviewer_feedback) = 2
    /\ Val(state.escalation).reviewer_feedback[1] #
          Val(state.escalation).reviewer_feedback[2]
    /\ Val(state.escalation).failed_drafts[1].content #
          Val(state.escalation).failed_drafts[2].content

\* C20: every step of Escalate, whether its log write is done or raises,
\* merges the same update (the escalation record of the state, the two
\* flags) and ends the run at END.
C20_LogFailureHarmless ==
    [][pc = "escalate_ticket"
       => /\ state' = Merge(state,
                            [escalation |-> Some(EscalationDetails(state)),
                             needs_escalation |-> TRUE,
                             workflow_complete |-> TRUE])
          /\ pc' = "END"
          /\ stream' = Append(stream, "escalate_ticket")]_vars

\* The log write raised (no log file exists after the escalation) and the run
\* ended escalated.
C20_Witness ==
    /\ EndedInEscalate
    /\ ~escalation_log.exists
    /\ IsSet(state.escalation)
    /\ state.needs_escalation

FracEqual(a, b) == a[1] * b[2] = b[1] * a[2]

\* The position in its category's catalogue of the entry a snippet was made
\* from.
CatalogueIndex(category, snippet) ==
    CHOOSE k \in DOMAIN Knowledge[category] :
        Knowledge[category][k].source = snippet.source

\* The words of the call's query, as retrieve splits them.
CallWords == SplitWords(Lower(kb_call.query))

\* C22: the result of retrieve is in descending order of relevance_score, and
\* snippets of equal relevance_score are in the order of their entries in the
\* catalogue, for every query, category and limit.
C22_SortedStable ==
    kb_call.returned =>
        \A i, j \in DOMAIN kb_call.result :
            i < j =>
                LET a == kb_call.result[i]
                    b == kb_call.result[j]
                IN  /\ ~FracLess(a.relevance_score, b.relevance_score)
                    /\ FracEqual(a.relevance_score, b.relevance_score)
                         => CatalogueIndex(kb_call.category, a)
                              < CatalogueIndex(kb_call.category, b)

\* A result of three snippets: one above two of equal score.
C22_Witness ==
    /\ kb_call.returned
    /\ Len(kb_call.result) = 3
    /\ FracLess(kb_call.result[2].relevance_score,
                kb_call.result[1].relevance_score)
    /\ FracEqual(kb_call.result[2].relevance_score,
                 kb_call.result[3].relevance_score)

\* C23: retrieve returns at most max_results snippets, each made from an
\* entry of the category's catalogue and each with relevance_score > 0; no
\* entry left out scores higher than a snippet returned; the result is empty
\* for a query that is empty or whitespace alone, and for a category outside
\* the catalogue.
C23_TopPositive ==
    kb_call.returned =>
        LET r == kb_call.result
            entries == IF kb_call.category \in DOMAIN Knowledge
                       THEN Knowledge[kb_call.category] ELSE <<>>
        IN  /\ Len(r) <= kb_call.max_results
            /\ \A i \in DOMAIN r :
                  /\ \E k \in DOMAIN entries :
                        /\ entries[k].content = r[i].content
                        /\ entries[k].source = r[i].source
                  /\ r[i].relevance_score[1] > 0
            /\ \A k \in DOMAIN entries :
                  (\A i \in DOMAIN r : r[i].source # entries[k].source)
                  => \A i \in DOMAIN r :
                        ~FracLess(r[i].relevance_score,
                                  RelevanceScore(entries[k], CallWords))
            /\ Strip(kb_call.query) = "" => r = <<>>
            /\ kb_call.category \notin TicketCategory => r = <<>>

\* The limit cut the result: two snippets returned, an entry with a positive
\* score left out.
C23_Witness ==
    /\ kb_call.returned
    /\ kb_call.max_results = 2
    /\ Len(kb_call.result) = 2
    /\ \E k \in DOMAIN Knowledge[kb_call.category] :
          /\ \A i \in DOMAIN kb_call.result :
                kb_call.result[i].source #
                   Knowledge[kb_call.category][k].source
          /\ RelevanceScore(Knowledge[kb_call.category][k], CallWords)[1] > 0

C25_StepOrder ==
    /\ stream # <<>> => stream[1] = "classify_ticket"
    /\ Count("classify_ticket", stream) <= 1
    /\ \A i \in DOMAIN stream :
          /\ stream[i] = "retrieve_context"
                => i > 1 /\ stream[i - 1] \in {"classify_ticket", "review_draft"}
          /\ stream[i] = "generate_draft"
                => i > 1 /\ stream[i - 1] = "retrieve_context"
          /\ stream[i] = "review_draft"
                => i > 1 /\ stream[i - 1] = "generate_draft"
          /\ stream[i] \in {"finalize_response", "escalate_ticket"}
                => i > 1 /\ stream[i - 1] = "review_draft" /\ i = Len(stream)
    /\ pc = "generate_draft" =>
          /\ Last(stream) = "retrieve_context"
          /\ Val(state.retrieval).query_used = RetrievalQuery(state)
    /\ pc = "review_draft" =>
          /\ Last(stream) = "generate_draft"
          /\ state.draft = Some(Last(state.all_drafts))
          /\ Val(state.draft).attempt_number = state.attempt_count

\* A run of two cycles that ended in Finalize.
C25_Witness ==
    stream = <<"classify_ticket",
               "retrieve_context", "generate_draft", "review_draft",
               "retrieve_context", "generate_draft", "review_draft",
               "finalize_response">>

\* C26: no step after classify_ticket changes the classification, and
\* classify_ticket runs at most once.
C26_ClassificationFixed ==
    /\ [][pc # "classify_ticket"
            => state'.classification = state.classification]_vars
    /\ [](Count("classify_ticket", stream) <= 1)

\* A run classified as technical ended after a retry, still classified so.
C26_Witness ==
    /\ Terminal
    /\ Count("retrieve_context", stream) = 2
    /\ state.classification =
          Some([category |-> "technical", confidence |-> 90])

\* The fields of the AgentState a node's update may change.
Writes(node) ==
    CASE node = "classify_ticket" -> {"classification"}
      [] node = "retrieve_context" -> {"retrieval"}
      [] node = "generate_draft" -> {"draft", "attempt_count", "all_drafts"}
      [] node = "review_draft" -> {"review", "all_reviews"}
      [] node = "finalize_response" -> {"final_response", "workflow_complete"}
      [] node = "escalate_ticket" ->
            {"escalation", "needs_escalation", "workflow_complete"}
      [] OTHER -> {}

\* seq is an initial part of longer.
IsPrefix(seq, longer) ==
    Len(seq) <= Len(longer) /\ seq = SubSeq(longer, 1, Len(seq))

\* C27: a step changes no field of the AgentState besides those of the node
\* that runs (none once the run is over); the ticket stays as it is, and
\* all_drafts and all_reviews only grow at their end.
C27_FrameOfEachStep ==
    [][/\ \A k \in DOMAIN state :
            state'[k] # state[k] => k \in Writes(pc)
       /\ state'.ticket = state.ticket
       /\ IsPrefix(state.all_drafts, state'.all_drafts)
       /\ IsPrefix(state.all_reviews, state'.all_reviews)]_vars

\* Every kind of node has run: two cycles, then Finalize.
C27_Witness ==
    /\ EndedInFinalize
    /\ Len(state.all_drafts) = 2
    /\ Len(state.all_reviews) = 2
    /\ IsSet(state.review)
    /\ IsSet(state.final_response)

\* The ticket of the spec's retrieval scenario.
LoginTicket ==
    [subject |-> "Can't log in",
     description |-> "Password reset link not working"]

\* C28: the stored retrieval holds at most 3 snippets, each made from an
\* entry of the catalogue of the run's classified category; for the login
\* ticket classified as technical the login-troubleshooting entry is among
\* them.
C28_RetrievalOfCategory ==
    IsSet(state.retrieval) =>
        LET snippets == Val(state.retrieval).snippets
            category == Val(state.classification).category
        IN  /\ Len(snippets) <= 3
            /\ \A i \in DOMAIN snippets :
                  \E k \in DOMAIN Knowledge[category] :
                     /\ Knowledge[category][k].content = snippets[i].content
                     /\ Knowledge[category][k].source = snippets[i].source
            /\ (state.ticket = LoginTicket /\ category = "technical")
                  => \E i \in DOMAIN snippets :
                        snippets[i].source = "login_troubleshooting.md"

\* The login ticket, classified as technical, with three snippets retrieved,
\* the login-troubleshooting entry first.
C28_Witness ==
    /\ pc = "generate_draft"
    /\ state.ticket = LoginTicket
    /\ Val(state.classification).category = "technical"
    /\ Len(Val(state.retrieval).snippets) = 3
    /\ Val(state.retrieval).snippets[1].source = "login_troubleshooting.md"

\* min((2 x keywordMatches + contentMatches) / (|keywords| + 1), 1) as a
\* fraction, from the two counts.
ScoreFormula(entry, query_words) ==
    LET num == 2 * KeywordMatches(entry, query_words)
                 + ContentMatches(entry, query_words)
        den == Len(entry.keywords) + 1
    IN  IF FracLess(<<1, 1>>, <<num, den>>) THEN <<1, 1>> ELSE <<num, den>>

\* C29: for every entry of the catalogue queried, the relevance score is
\* min((2 x keywordMatches + contentMatches) / (|keywords| + 1), 1), lies
\* within [0, 1] and is 0 exactly when both counts are 0; the snippets
\* returned carry the score of their entries.
C29_ScoreFormula ==
    (kb_call.returned /\ kb_call.category \in TicketCategory) =>
        LET entries == Knowledge[kb_call.category]
        IN  /\ \A k \in DOMAIN entries :
                  LET score == RelevanceScore(entries[k], CallWords)
                  IN  /\ FracEqual(score, ScoreFormula(entries[k], CallWords))
                      /\ ~FracLess(score, <<0, 1>>)
                      /\ ~FracLess(<<1, 1>>, score)
                      /\ score[1] = 0
                           <=> /\ KeywordMatches(entries[k], CallWords) = 0
                               /\ ContentMatches(entries[k], CallWords) = 0
            /\ \A i \in DOMAIN kb_call.result :
                  FracEqual(kb_call.result[i].relevance_score,
                            ScoreFormula(
                               entries[CatalogueIndex(kb_call.category,
                                                      kb_call.result[i])],
                               CallWords))

\* A snippet returned with score 1 whose uncapped score is above 1, next to
\* one with a score below 1.
C29_Witness ==
    /\ kb_call.returned
    /\ \E i, j \in DOMAIN kb_call.result :
          LET entry == Knowledge[kb_call.category]
                          [CatalogueIndex(kb_call.category, kb_call.result[i])]
          IN  /\ 2 * KeywordMatches(entry, CallWords)
                    + ContentMatches(entry, CallWords)
                    > Len(entry.keywords) + 1
              /\ FracEqual(kb_call.result[i].relevance_score, <<1, 1>>)
              /\ FracLess(kb_call.result[j].relevance_score, <<1, 1>>)

\* The rows of the log written by the escalating runs.
NewRows ==
    { i \in DOMAIN escalation_log.rows : escalation_log.rows[i] # EarlierRow }

\* C30: the log holds one row for every escalation whose write was done, and
\* every row it held before, also when runs escalate at the same time.
C30_LogAppendOnly ==
    /\ Cardinality(NewRows) =
          Cardinality({ r \in DOMAIN log_writers : log_writers[r].written })
    /\ \A r \in DOMAIN log_writers :
          log_writers[r].written =>
             \E i \in NewRows : escalation_log.rows[i] = log_writers[r].row

(***************************************************************************)
(* Preconditions, validated ranges and the order of the histories          *)
(***************************************************************************)

\* C31: whenever the workflow is about to invoke a node, the fields that node
\* requires are present (classification at retrieve_context; classification
\* and retrieval at generate_draft; draft at review_draft; draft and
\* review at finalize_response), and no run ends in a precondition error,
\* whatever the classifier, generator and evaluator return or raise.
C31_PreconditionsHold ==
    /\ pc # "error"
    /\ pc = "retrieve_context" => IsSet(state.classification)
    /\ pc = "generate_draft" =>
          IsSet(state.classification) /\ IsSet(state.retrieval)
    /\ pc = "review_draft" => IsSet(state.draft)
    /\ pc = "finalize_response" => IsSet(state.draft) /\ IsSet(state.review)

\* A run in which the classifier, the generator and the evaluator all failed
\* on the first attempt and that still reached finalize_response.
C31_Witness ==
    /\ pc = "finalize_response"
    /\ state.classification = ClassifyFallback.classification
    /\ Len(state.all_drafts) = 2
    /\ state.all_drafts[1].content = FallbackDraftText
    /\ state.all_reviews[1] = FallbackReview

\* C32: every review kept in all_reviews has a score in [0, 1] and the
\* classification a confidence in [0, 1]; a review step whose evaluator reply
\* carries an overall score outside [0, 1] appends the rejecting fallback
\* review (not approved, score 0.3) even if the reply said approved, and a
\* classify step whose reply names a known category with a confidence outside
\* [0, 1] stores the fallback classification (general, 0.1).
C32_RangesEnforced ==
    /\ [](
            /\ \A i \in DOMAIN state.all_reviews :
                  0 <= state.all_reviews[i].score
                  /\ state.all_reviews[i].score <= 100
            /\ IsSet(state.review) =>
                  0 <= Val(state.review).score /\ Val(state.review).score <= 100
            /\ IsSet(state.classification) =>
                  0 <= Val(state.classification).confidence
                  /\ Val(state.classification).confidence <= 100)
    /\ [][\A o \in EvaluatorOutcomes :
            ( /\ pc = "review_draft"
              /\ o.ok
              /\ "overall_score" \in DOMAIN o.value
              /\ (o.value.overall_score < 0 \/ o.value.overall_score > 100)
              /\ state' = Merge(state, review_draft(state, o)) )
            => /\ Len(state'.all_reviews) = Len(state.all_reviews) + 1
               /\ ~Last(state'.all_reviews).approved
               /\ Last(state'.all_reviews).score = 30
               /\ state'.review = Some(Last(state'.all_reviews))]_vars
    /\ [][\A o \in ClassifierOutcomes :
            ( /\ pc = "classify_ticket"
              /\ o.ok
              /\ "category" \in DOMAIN o.value
              /\ Lower(o.value.category) \in TicketCategory
              /\ "confidence" \in DOMAIN o.value
              /\ (o.value.confidence < 0 \/ o.value.confidence > 100)
              /\ state' = Merge(state, classify_ticket(state, o)) )
            => state'.classification =
                 Some([category |-> "general", confidence |-> 10])]_vars

\* Both fallbacks are in one state: the classification (general, 0.1) and a
\* rejecting review of score 0.3 at the head of the history, as left by the
\* replies approved/1.5 and security/1.5.
C32_Witness ==
    /\ state.classification =
         Some([category |-> "general", confidence |-> 10])
    /\ Len(state.all_reviews) >= 1
    /\ ~state.all_reviews[1].approved
    /\ state.all_reviews[1].score = 30
    /\ \E o \in EvaluatorOutcomes :
         /\ o.ok
         /\ {"approved", "overall_score"} \subseteq DOMAIN o.value
         /\ o.value.approved /\ o.value.overall_score > 100
         /\ ReviewOf(o) = state.all_reviews[1]

\* C33: the drafts of all_drafts are numbered 1, 2, ... by position, the
\* current draft is the last of all_drafts, the current review is the last of
\* all_reviews, and the review appended as the i-th one is made while the
\* current draft is the i-th draft.
C33_HistoriesAligned ==
    /\ [](
            /\ \A i \in DOMAIN state.all_drafts :
                  state.all_drafts[i].attempt_number = i
            /\ IsSet(state.draft) <=> state.all_drafts # <<>>
            /\ IsSet(state.draft) =>
                  state.draft = Some(state.all_drafts[Len(state.all_drafts)])
            /\ IsSet(state.review) <=> state.all_reviews # <<>>
            /\ IsSet(state.review) =>
                  state.review = Some(state.all_reviews[Len(state.all_reviews)]))
    /\ [][pc = "review_draft" /\ pc' # "review_draft" =>
            /\ Len(state'.all_reviews) = Len(state.all_reviews) + 1
            /\ Len(state'.all_reviews) = Len(state.all_drafts)
            /\ Val(state.draft) = state.all_drafts[Len(state'.all_reviews)]
            /\ Val(state.draft).attempt_number = Len(state'.all_reviews)
            /\ state'.all_drafts = state.all_drafts]_vars

\* The second review has just been appended while the second draft is current.
C33_Witness ==
    /\ Len(stream) > 0 /\ stream[Len(stream)] = "review_draft"
    /\ Len(state.all_drafts) = 2
    /\ Len(state.all_reviews) = 2
    /\ state.all_drafts[1].content # state.all_drafts[2].content
    /\ state.all_reviews[1] # state.all_reviews[2]
    /\ Val(state.draft).attempt_number = 2

=========================================================================
